---------------------------- MODULE Spec2Model ----------------------------
(***************************************************************************)
(* Model of the Nemo Run difficulty curve, game-state context and obstacle *)
(* subsystem (spawning, motion, culling, collision detection).             *)
(*                                                                         *)
(* Number conventions                                                      *)
(*   - A JavaScript number that is an integer in every reachable state     *)
(*     (score, thresholds, timestamps) is a TLA+ integer; the value NaN is *)
(*     the distinguished integer NaN below, and every arithmetic helper    *)
(*     propagates it the way IEEE arithmetic does.                         *)
(*   - Fractional values (speed, spawnRate, scoreMultiplier) are exact     *)
(*     rationals [n, d] in lowest terms; d = 0 is NaN.                     *)
(*   - Lengths in the 3D scene are integers in units of 1/10000.           *)
(***************************************************************************)
EXTENDS Integers, Sequences, FiniteSets, TLC

(***************************************************************************)
(* Numbers                                                                 *)
(***************************************************************************)
NaN == 0 - 1073741824

IsNaN(x) == x = NaN

NumAdd(a, b) == IF IsNaN(a) \/ IsNaN(b) THEN NaN ELSE a + b

NumSub(a, b) == IF IsNaN(a) \/ IsNaN(b) THEN NaN ELSE a - b

NumMul(a, b) == IF IsNaN(a) \/ IsNaN(b) THEN NaN ELSE a * b

\* a >= b, a > b, a < b on JavaScript numbers: false as soon as one side is NaN
NumGe(a, b) == ~IsNaN(a) /\ ~IsNaN(b) /\ a >= b

NumGt(a, b) == ~IsNaN(a) /\ ~IsNaN(b) /\ a > b

NumLt(a, b) == ~IsNaN(a) /\ ~IsNaN(b) /\ a < b

Abs(x) == IF x < 0 THEN 0 - x ELSE x

RECURSIVE GCD(_, _)
GCD(a, b) == IF b = 0 THEN a ELSE GCD(b, a % b)

RatNaN == [n |-> 0, d |-> 0]

\* the rational n/d in lowest terms with a positive denominator
Rat(n, d) ==
  IF d = 0 THEN RatNaN
  ELSE LET g == GCD(Abs(n), Abs(d))
           s == IF d < 0 THEN 0 - 1 ELSE 1
       IN [n |-> (s * n) \div g, d |-> (s * d) \div g]

RatFromNum(x) == IF IsNaN(x) THEN RatNaN ELSE [n |-> x, d |-> 1]

RatIsNaN(a) == a.d = 0

RatAdd(a, b) ==
  IF RatIsNaN(a) \/ RatIsNaN(b) THEN RatNaN
  ELSE Rat(a.n * b.d + b.n * a.d, a.d * b.d)

RatSub(a, b) ==
  IF RatIsNaN(a) \/ RatIsNaN(b) THEN RatNaN
  ELSE Rat(a.n * b.d - b.n * a.d, a.d * b.d)

RatMul(a, b) ==
  IF RatIsNaN(a) \/ RatIsNaN(b) THEN RatNaN
  ELSE Rat(a.n * b.n, a.d * b.d)

\* a / b; the only division of the program has a positive divisor or a NaN side
RatDiv(a, b) ==
  IF RatIsNaN(a) \/ RatIsNaN(b) THEN RatNaN
  ELSE Rat(a.n * b.d, a.d * b.n)

RatLe(a, b) == ~RatIsNaN(a) /\ ~RatIsNaN(b) /\ a.n * b.d <= b.n * a.d

RatLt(a, b) == ~RatIsNaN(a) /\ ~RatIsNaN(b) /\ a.n * b.d < b.n * a.d

\* Math.round of a rational: floor(x + 1/2); NaN stays NaN
RatRound(a) ==
  IF RatIsNaN(a) THEN NaN ELSE (2 * a.n + a.d) \div (2 * a.d)

(***************************************************************************)
(* GAME_SETTINGS.DIFFICULTY_LEVELS.  No level sets scoreMultiplier: the    *)
(* optional field is the empty sequence when absent.                       *)
(***************************************************************************)
DIFFICULTY_LEVELS ==
  << [score |-> 0,    speed |-> Rat(5, 1),  spawnRate |-> Rat(20, 10), scoreMultiplier |-> << >>],
     [score |-> 100,  speed |-> Rat(6, 1),  spawnRate |-> Rat(18, 10), scoreMultiplier |-> << >>],
     [score |-> 250,  speed |-> Rat(7, 1),  spawnRate |-> Rat(16, 10), scoreMultiplier |-> << >>],
     [score |-> 500,  speed |-> Rat(8, 1),  spawnRate |-> Rat(14, 10), scoreMultiplier |-> << >>],
     [score |-> 1000, speed |-> Rat(9, 1),  spawnRate |-> Rat(12, 10), scoreMultiplier |-> << >>],
     [score |-> 2000, speed |-> Rat(10, 1), spawnRate |-> Rat(10, 10), scoreMultiplier |-> << >>] >>

\* index i of the model is index i - 1 of the source array
NumLevels == Len(DIFFICULTY_LEVELS)

\* variant: an absent multiplier counts as 2.0
MultiplierOrTwo(level) ==
  IF level.scoreMultiplier = << >> THEN Rat(2, 1) ELSE level.scoreMultiplier[1]

\* `level.scoreMultiplier || 1.0`: absent, 0 and NaN are falsy
MultiplierOrDefault(level) ==
  IF level.scoreMultiplier = << >> THEN Rat(1, 1)
  ELSE IF RatIsNaN(level.scoreMultiplier[1]) \/ level.scoreMultiplier[1].n = 0
       THEN Rat(1, 1)
       ELSE level.scoreMultiplier[1]

\* the loop of getDifficultyLevelIndex from index i downwards (0-based result)
RECURSIVE LevelScan(_, _)
LevelScan(score, i) ==
  IF i < 0 THEN 0
  ELSE IF NumGe(score, DIFFICULTY_LEVELS[i + 1].score) THEN i
       ELSE LevelScan(score, i - 1)

\* variant: a threshold belongs to the tier below it (score > threshold)
getDifficultyLevelIndexStrict(score) ==
  LET above == { i \in 0..(NumLevels - 1) : NumGt(score, DIFFICULTY_LEVELS[i + 1].score) }
  IN IF above = {} THEN 0 ELSE CHOOSE i \in above : \A k \in above : k <= i

getDifficultyLevelIndex(score) == LevelScan(score, NumLevels - 1)

\* variant: the milestone is the threshold of the current tier
getNextMilestoneCurrent(score) ==
  LET currentLevelIndex == getDifficultyLevelIndex(score)
  IN IF currentLevelIndex >= NumLevels - 1 THEN << >>
     ELSE << DIFFICULTY_LEVELS[currentLevelIndex + 1].score >>

\* number | null: the empty sequence is null
getNextMilestone(score) ==
  LET currentLevelIndex == getDifficultyLevelIndex(score)
  IN IF currentLevelIndex >= NumLevels - 1 THEN << >>
     ELSE << DIFFICULTY_LEVELS[currentLevelIndex + 2].score >>

\* variant: the tier's configured values, never interpolated
calculateGameParametersRaw(score) ==
  LET levelIndex   == getDifficultyLevelIndex(score)
      currentLevel == DIFFICULTY_LEVELS[levelIndex + 1]
  IN [speed           |-> currentLevel.speed,
      spawnRate       |-> currentLevel.spawnRate,
      scoreMultiplier |-> MultiplierOrDefault(currentLevel),
      difficultyLevel |-> levelIndex,
      nextMilestone   |-> getNextMilestone(score)]

\* variant: interpolation with the remaining instead of the covered progress
calculateGameParametersDescending(score) ==
  LET levelIndex    == getDifficultyLevelIndex(score)
      currentLevel  == DIFFICULTY_LEVELS[levelIndex + 1]
      nextMilestone == getNextMilestone(score)
  IN IF nextMilestone = << >> \/ score = currentLevel.score
     THEN calculateGameParametersRaw(score)
     ELSE LET nextLevel == DIFFICULTY_LEVELS[levelIndex + 2]
              remaining ==
                RatDiv(RatFromNum(NumSub(nextLevel.score, score)),
                       RatFromNum(nextLevel.score - currentLevel.score))
          IN [speed |-> RatAdd(currentLevel.speed,
                          RatMul(remaining, RatSub(nextLevel.speed, currentLevel.speed))),
              spawnRate |-> RatAdd(currentLevel.spawnRate,
                          RatMul(remaining,
                                 RatSub(nextLevel.spawnRate, currentLevel.spawnRate))),
              scoreMultiplier |-> MultiplierOrDefault(currentLevel),
              difficultyLevel |-> levelIndex,
              nextMilestone   |-> nextMilestone]

calculateGameParameters(score) ==
  LET levelIndex    == getDifficultyLevelIndex(score)
      currentLevel  == DIFFICULTY_LEVELS[levelIndex + 1]
      nextMilestone == getNextMilestone(score)
  IN IF nextMilestone = << >> \/ score = currentLevel.score
     THEN [speed           |-> currentLevel.speed,
           spawnRate       |-> currentLevel.spawnRate,
           scoreMultiplier |-> MultiplierOrDefault(currentLevel),
           difficultyLevel |-> levelIndex,
           nextMilestone   |-> nextMilestone]
     ELSE LET nextLevel == DIFFICULTY_LEVELS[levelIndex + 2]
              progressToNextLevel ==
                RatDiv(RatFromNum(NumSub(score, currentLevel.score)),
                       RatFromNum(nextLevel.score - currentLevel.score))
              currentMultiplier == MultiplierOrDefault(currentLevel)
              nextMultiplier    == MultiplierOrDefault(nextLevel)
          IN [speed |-> RatAdd(currentLevel.speed,
                          RatMul(progressToNextLevel,
                                 RatSub(nextLevel.speed, currentLevel.speed))),
              spawnRate |-> RatAdd(currentLevel.spawnRate,
                          RatMul(progressToNextLevel,
                                 RatSub(nextLevel.spawnRate, currentLevel.spawnRate))),
              scoreMultiplier |-> RatAdd(currentMultiplier,
                          RatMul(progressToNextLevel,
                                 RatSub(nextMultiplier, currentMultiplier))),
              difficultyLevel |-> levelIndex,
              nextMilestone   |-> nextMilestone]

\* variant: staying in the same tier counts as a new level
isNewDifficultyLevelOrSame(previousScore, currentScore) ==
  getDifficultyLevelIndex(currentScore) >= getDifficultyLevelIndex(previousScore)

isNewDifficultyLevel(previousScore, currentScore) ==
  getDifficultyLevelIndex(currentScore) > getDifficultyLevelIndex(previousScore)

difficultyNames == << "Easy", "Normal", "Challenging", "Hard", "Expert", "Master" >>

Min(a, b) == IF a <= b THEN a ELSE b

getDifficultyName(levelIndex) ==
  difficultyNames[Min(levelIndex, Len(difficultyNames) - 1) + 1]


(***************************************************************************)
(* Bounds of the model                                                     *)
(***************************************************************************)
\* ids 0 .. MaxObstacleId - 1 can be issued before spawning frames are cut off
MaxObstacleId == 2

\* Date.now() is not advanced beyond NowBase + MaxElapsed
MaxElapsed == 4000

\* setScore(n) is not applied when it would take the score above MaxScore
MaxScore == 1000

\* pending auto-dismiss timeouts
MaxTimers == 2

\* the ghost counter of onCollision calls saturates here
CallCap == 2

\* largest score handed to updateDifficulty in the runs of the difficulty curve
MaxDifficultyScore == 2100

(***************************************************************************)
(* Inputs                                                                  *)
(***************************************************************************)
\* Date.now() when the page has loaded (any value >= the base spawn interval)
NowBase == 10000

\* wall-clock advances between events, in ms
TimeSteps == {2000}
ShortTimeSteps == {1000}

\* frame delta in units of 50 ms: 0 s, 1.3 s and 2 s
DeltaSet == {0, 26, 40}

\* player positions (x, y, z), units of 1/10000; within BOUNDS of the controls
PlayerPositions ==
  { <<0, 0, 0>>, <<0, 0 - 35000, 0>>, <<0, 0 - 35000, 4000>> }

\* Math.random() * 10 - 5 at spawn, units of 1/10000
SpawnXs == {0}

\* Math.random() * 3 - 1.5 at spawn, units of 1/10000
SpawnYJitters == {0}

\* sin((elapsedTime + animationOffset) * frequency) and the sine of twice that
\* angle, as rationals: the angle 0 and the angle with sine 3/5, cosine 4/5
Oscillations ==
  { [sin |-> Rat(0, 1), sin2 |-> Rat(0, 1)],
    [sin |-> Rat(3, 5), sin2 |-> Rat(24, 25)] }

\* arguments of setScore(n) (DevTools, integration test)
ScoreInputs == {1000}

\* arguments of direct updateDifficulty(s) calls
DifficultyInputs == {90, 300}

\* scores around every threshold of the table, and the increments between two
\* successive updateDifficulty calls of the difficulty-curve runs
DifficultyLandmarks ==
  {0, 1, 50, 99, 100, 101, 175, 249, 250, 251, 499, 500, 501, 999, 1000, 1001,
   1500, 1999, 2000, 2001}

DifficultySteps == {1, 10}

(***************************************************************************)
(* GAME_SETTINGS / UI_SETTINGS used by the obstacle subsystem.             *)
(* Lengths in units of 1/10000.                                            *)
(***************************************************************************)
OBSTACLE_SPAWN_RATE == 2000

OBSTACLE_SPAWN_DISTANCE == 1000000

INITIAL_SPEED == 5000

\* COLLISION_THRESHOLD = 0.8, in tenths
COLLISION_THRESHOLD == 8

\* NEMO_INITIAL_SIZE = 1.0 and NEMO_GROWTH_FACTOR = 0.05, in hundredths
NEMO_INITIAL_SIZE == 100

NEMO_GROWTH_FACTOR == 5

GROWTH_SCORE_THRESHOLD == 1000

\* the divisor of getDifficultyFactor
DifficultyDivisor == 5000

\* the culling plane z > 20
CullZ == 200000

\* the auto-dismiss delay of the difficulty notification, ms
DismissDelay == 3000

ObstacleTypes == {"coral", "seaweed", "rock", "shark", "jellyfish"}

\* the kinds Math.random() selects in the runs explored
SpawnTypes == {"coral", "rock"}

obstacleConfigs ==
  [ coral     |-> [movement |-> "static",    yPosition |-> 0 - 35000, amplitude |-> 0,
                   collisionRadius |-> 10000],
    seaweed   |-> [movement |-> "leftRight", yPosition |-> 0 - 30000, amplitude |-> 2000,
                   collisionRadius |-> 8000],
    rock      |-> [movement |-> "static",    yPosition |-> 0 - 20000, amplitude |-> 0,
                   collisionRadius |-> 11000],
    shark     |-> [movement |-> "zigzag",    yPosition |-> 0,         amplitude |-> 15000,
                   collisionRadius |-> 12000],
    jellyfish |-> [movement |-> "upDown",    yPosition |-> 10000,     amplitude |-> 15000,
                   collisionRadius |-> 7000] ]

(***************************************************************************)
(* State                                                                   *)
(***************************************************************************)
VARIABLES
  \* GameStateProvider
  gameStatus,                  \* 'menu' | 'playing' | 'paused' | 'gameOver'
  score,
  highScore,
  gameParameters,
  showDifficultyNotification,
  difficultyName,
  previousScoreRef,
  dismissTimers,               \* due times of the pending auto-dismiss timeouts, oldest first
  \* Obstacles component
  obstacles,                   \* the rendered obstacle list, in array order
  lastSpawnTimeRef,
  obstacleCounterRef,
  hasCollidedRef,
  \* environment
  now,                         \* Date.now()
  nemoPosition,                \* world position of the player group
  \* history variables
  collisionCalls,              \* onCollision calls since the last startGame (saturating)
  lastUpdateScore,             \* argument of the most recent updateDifficulty call
  culledIds,                   \* ids that have been removed from the obstacle list
  \* StorageManager (localStorage)
  storedProfiles,              \* the array stored under PROFILES_KEY, after JSON.parse
  currentProfileName,          \* the item stored under PROFILES_KEY + '_current'
  storageResult                \* history: what the last StorageManager call returned

ctxVars == << gameStatus, score, highScore, gameParameters, showDifficultyNotification,
              difficultyName, previousScoreRef, dismissTimers >>

obsVars == << obstacles, lastSpawnTimeRef, obstacleCounterRef, hasCollidedRef >>

envVars == << now, nemoPosition >>

histVars == << collisionCalls, lastUpdateScore, culledIds >>

storeVars == << storedProfiles, currentProfileName, storageResult >>

vars == << ctxVars, obsVars, envVars, histVars, storeVars >>

isPlaying == gameStatus = "playing"

(***************************************************************************)
(* GameStateProvider: difficulty state.  The operations below act on the   *)
(* record D of the difficulty-related state so that the calls made within  *)
(* one handler and its effects can be chained.                             *)
(***************************************************************************)
D == [ gameParameters             |-> gameParameters,
       showDifficultyNotification |-> showDifficultyNotification,
       difficultyName             |-> difficultyName,
       previousScoreRef           |-> previousScoreRef,
       dismissTimers              |-> dismissTimers,
       lastUpdateScore            |-> lastUpdateScore ]

updateDifficulty(d, newScore) ==
  LET params == calculateGameParameters(newScore)
      isNew  == isNewDifficultyLevel(d.previousScoreRef, newScore)
  IN [ gameParameters             |-> params,
       difficultyName             |-> IF isNew THEN getDifficultyName(params.difficultyLevel)
                                               ELSE d.difficultyName,
       showDifficultyNotification |-> IF isNew THEN TRUE ELSE d.showDifficultyNotification,
       dismissTimers              |-> IF isNew THEN Append(d.dismissTimers, now + DismissDelay)
                                               ELSE d.dismissTimers,
       previousScoreRef           |-> newScore,
       lastUpdateScore            |-> newScore ]

\* the effect on [score, isPlaying]: it runs after a render in which either changed
ScoreEffect(d, oldStatus, oldScore, newStatus, newScore) ==
  IF (newScore # oldScore \/ (oldStatus = "playing") # (newStatus = "playing"))
     /\ newStatus = "playing"
  THEN updateDifficulty(d, newScore)
  ELSE d

\* the Obstacles effect on [isPlaying]
CollisionResetEffect(oldStatus, newStatus, latch) ==
  IF (oldStatus = "playing") # (newStatus = "playing") /\ newStatus = "playing"
  THEN FALSE
  ELSE latch

\* a timeout is armed only while it is due within the modelled time span
TimersWithinHorizon(timers) ==
  \A i \in 1..Len(timers) : timers[i] <= NowBase + MaxElapsed

SetD(d) ==
  /\ Len(d.dismissTimers) <= MaxTimers
  /\ TimersWithinHorizon(d.dismissTimers)
  /\ gameParameters' = d.gameParameters
  /\ showDifficultyNotification' = d.showDifficultyNotification
  /\ difficultyName' = d.difficultyName
  /\ previousScoreRef' = d.previousScoreRef
  /\ dismissTimers' = d.dismissTimers
  /\ lastUpdateScore' = d.lastUpdateScore

\* `if (score > highScore) setHighScore(score)` of handleCollision and endGame
HighScoreAfterEnd == IF NumGt(score, highScore) THEN score ELSE highScore

(***************************************************************************)
(* GameStateProvider: actions                                              *)
(***************************************************************************)
\* variant: the score of the previous playthrough is kept
StartGameKeepsScore ==
  LET d1 == updateDifficulty([D EXCEPT !.previousScoreRef = 0], 0)
      d2 == ScoreEffect(d1, gameStatus, score, "playing", score)
  IN /\ score' = score
     /\ gameStatus' = "playing"
     /\ SetD(d2)
     /\ hasCollidedRef' = CollisionResetEffect(gameStatus, "playing", hasCollidedRef)
     /\ collisionCalls' = 0
     /\ UNCHANGED << highScore, obstacles, lastSpawnTimeRef, obstacleCounterRef, envVars, culledIds, storeVars >>

StartGame ==
  LET d1 == updateDifficulty([D EXCEPT !.previousScoreRef = 0], 0)
      d2 == ScoreEffect(d1, gameStatus, score, "playing", 0)
  IN /\ score' = 0
     /\ gameStatus' = "playing"
     /\ SetD(d2)
     /\ hasCollidedRef' = CollisionResetEffect(gameStatus, "playing", hasCollidedRef)
     /\ collisionCalls' = 0
     /\ UNCHANGED << highScore, obstacles, lastSpawnTimeRef, obstacleCounterRef,
                     envVars, culledIds, storeVars >>

EndGame ==
  /\ gameStatus' = "gameOver"
  /\ highScore' = HighScoreAfterEnd
  /\ SetD(D)
  /\ UNCHANGED << score, obsVars, envVars, collisionCalls, culledIds, storeVars >>

TogglePause ==
  LET newStatus == IF gameStatus = "playing" THEN "paused" ELSE "playing"
  IN /\ gameStatus' = newStatus
     /\ SetD(ScoreEffect(D, gameStatus, score, newStatus, score))
     /\ hasCollidedRef' = CollisionResetEffect(gameStatus, newStatus, hasCollidedRef)
     /\ UNCHANGED << score, highScore, obstacles, lastSpawnTimeRef, obstacleCounterRef,
                     envVars, collisionCalls, culledIds, storeVars >>

GoToMainMenu ==
  /\ gameStatus' = "menu"
  /\ SetD(D)
  /\ UNCHANGED << score, highScore, obsVars, envVars, collisionCalls, culledIds, storeVars >>

\* variant: the increase is applied whatever the status is
setScoreWithMultiplierAlways(baseScoreIncrease) ==
  LET multipliedIncrease ==
        RatMul(RatFromNum(baseScoreIncrease), gameParameters.scoreMultiplier)
      newScore == NumAdd(score, RatRound(multipliedIncrease))
  IN /\ IsNaN(newScore) \/ newScore <= MaxScore
     /\ score' = newScore
     /\ SetD(ScoreEffect(D, gameStatus, score, gameStatus, newScore))
     /\ UNCHANGED << gameStatus, highScore, obsVars, envVars, collisionCalls, culledIds, storeVars >>

\* setScoreWithMultiplier(baseScoreIncrease); the argument is a JavaScript number
setScoreWithMultiplier(baseScoreIncrease) ==
  LET multipliedIncrease ==
        RatMul(RatFromNum(baseScoreIncrease), gameParameters.scoreMultiplier)
      newScore == IF isPlaying THEN NumAdd(score, RatRound(multipliedIncrease)) ELSE score
  IN /\ IsNaN(newScore) \/ newScore <= MaxScore
     /\ score' = newScore
     /\ SetD(ScoreEffect(D, gameStatus, score, gameStatus, newScore))
     /\ UNCHANGED << gameStatus, highScore, obsVars, envVars, collisionCalls, culledIds, storeVars >>

\* the 100 ms interval of GameCanvas calls the context's setScore with the updater
\* function prev => prev + SCORE_INCREMENT; a function multiplied by a number is NaN
ScoreTick ==
  /\ isPlaying
  /\ setScoreWithMultiplier(NaN)

\* setScore(n) with a number (DevTools, integration test)
SetScore ==
  \E n \in ScoreInputs : setScoreWithMultiplier(n)

\* setScore(n) followed by endGame() in the same handler: endGame still holds the
\* score and high score of the render in which it was created
SetScoreAndEndGame ==
  \E n \in ScoreInputs :
    LET multipliedIncrease == RatMul(RatFromNum(n), gameParameters.scoreMultiplier)
        newScore == IF isPlaying THEN NumAdd(score, RatRound(multipliedIncrease)) ELSE score
    IN /\ IsNaN(newScore) \/ newScore <= MaxScore
       /\ score' = newScore
       /\ gameStatus' = "gameOver"
       /\ highScore' = HighScoreAfterEnd
       /\ SetD(ScoreEffect(D, gameStatus, score, "gameOver", newScore))
       /\ UNCHANGED << obsVars, envVars, collisionCalls, culledIds, storeVars >>

UpdateDifficultyCall ==
  \E s \in DifficultyInputs :
    /\ SetD(updateDifficulty(D, s))
    /\ UNCHANGED << gameStatus, score, highScore, obsVars, envVars, collisionCalls, culledIds, storeVars >>

\* updateDifficulty(s) along a walk through the score range
UpdateDifficultyNear ==
  \E s \in DifficultyLandmarks \cup { previousScoreRef + k : k \in DifficultySteps } :
    /\ s <= MaxDifficultyScore
    /\ SetD(updateDifficulty(D, s))
    /\ UNCHANGED << gameStatus, score, highScore, obsVars, envVars, collisionCalls, culledIds, storeVars >>

DismissDifficultyNotification ==
  /\ SetD([D EXCEPT !.showDifficultyNotification = FALSE])
  /\ UNCHANGED << gameStatus, score, highScore, obsVars, envVars, collisionCalls, culledIds, storeVars >>

\* variant: the timeout is consumed but the flag is left as it is
DismissTimerFiresKeepsFlag ==
  /\ dismissTimers # << >>
  /\ now >= Head(dismissTimers)
  /\ SetD([D EXCEPT !.dismissTimers = Tail(dismissTimers)])
  /\ UNCHANGED << gameStatus, score, highScore, obsVars, envVars, collisionCalls, culledIds, storeVars >>

\* the setTimeout callback of updateDifficulty
DismissTimerFires ==
  /\ dismissTimers # << >>
  /\ now >= Head(dismissTimers)
  /\ SetD([D EXCEPT !.showDifficultyNotification = FALSE,
                    !.dismissTimers = Tail(dismissTimers)])
  /\ UNCHANGED << gameStatus, score, highScore, obsVars, envVars, collisionCalls, culledIds, storeVars >>

\* dt milliseconds go by
Elapse(dt) ==
  /\ now + dt <= NowBase + MaxElapsed
  /\ now' = now + dt
  /\ UNCHANGED << ctxVars, obsVars, nemoPosition, histVars, storeVars >>

TimePasses == \E dt \in TimeSteps : Elapse(dt)

\* the clock in steps shorter than the auto-dismiss delay
TimePassesBriefly == \E dt \in ShortTimeSteps : Elapse(dt)

(***************************************************************************)
(* StorageManager: user profiles in localStorage                           *)
(***************************************************************************)
MAX_PROFILES == 5

\* localStorage.getItem(...) = null
NoProfile == "<null>"

\* names given to createProfile, deleteProfile and updateProfile
ProfileNames == {"ann", "bob", "cy", "p1"}

\* names of the profiles of an imported list
ImportedNames == << "p1", "p2", "p3", "p4", "p5", "p6" >>

\* a profile that was not made by createProfile (imported or migrated data)
importedProfile(name) ==
  [ name |-> name, highScore |-> 0, lastPlayed |-> NowBase, created |-> FALSE ]

\* lists handed to saveProfiles: the empty list of resetStorage, an imported
\* list longer than the limit, an imported list that repeats a name
ProfileLists ==
  { << >>,
    [ i \in 1..Len(ImportedNames) |-> importedProfile(ImportedNames[i]) ],
    << importedProfile("ann"), importedProfile("ann") >> }

\* profiles handed to updateProfile
ProfileUpdates == { [ name |-> n, highScore |-> 7 ] : n \in ProfileNames }

InitStorage ==
  /\ storedProfiles = << >>
  /\ currentProfileName = NoProfile
  /\ storageResult = "none"

\* variant: nothing is cut off
KeepAllProfiles(profiles) == profiles

\* profiles.slice(0, MAX_PROFILES), what saveProfiles stores
LimitedProfiles(profiles) == SubSeq(profiles, 1, Min(Len(profiles), MAX_PROFILES))

\* variant: no name is ever found
NameFoundNever(profiles, name) == FALSE

\* profiles.find(p => p.name === name) is not undefined
NameFound(profiles, name) == \E i \in 1..Len(profiles) : profiles[i].name = name

\* profiles.findIndex(p => p.name === name), 1-based; called when the name is there
FindIndex(profiles, name) ==
  CHOOSE i \in 1..Len(profiles) :
    /\ profiles[i].name = name
    /\ \A k \in 1..(i - 1) : profiles[k].name # name

saveProfiles(profiles) ==
  /\ storedProfiles' = LimitedProfiles(profiles)
  /\ currentProfileName' = currentProfileName
  /\ storageResult' = "undefined"
  /\ UNCHANGED << ctxVars, obsVars, envVars, histVars >>

createProfile(name) ==
  /\ IF NameFound(storedProfiles, name) \/ Len(storedProfiles) >= MAX_PROFILES
     THEN /\ storageResult' = "null"
          /\ UNCHANGED << storedProfiles, currentProfileName >>
     ELSE /\ storedProfiles' =
               LimitedProfiles(Append(storedProfiles,
                                      [ name |-> name, highScore |-> 0,
                                        lastPlayed |-> now, created |-> TRUE ]))
          /\ currentProfileName' = name
          /\ storageResult' = "profile"
  /\ UNCHANGED << ctxVars, obsVars, envVars, histVars >>

deleteProfile(name) ==
  LET newProfiles == SelectSeq(storedProfiles, LAMBDA q : q.name # name)
  IN /\ IF Len(newProfiles) = Len(storedProfiles)
        THEN /\ storageResult' = "false"
             /\ UNCHANGED << storedProfiles, currentProfileName >>
        ELSE /\ storedProfiles' = LimitedProfiles(newProfiles)
             /\ currentProfileName' =
                  IF currentProfileName = name
                  THEN IF Len(newProfiles) > 0 THEN newProfiles[1].name ELSE NoProfile
                  ELSE currentProfileName
             /\ storageResult' = "true"
     /\ UNCHANGED << ctxVars, obsVars, envVars, histVars >>

updateProfile(profile) ==
  /\ IF ~NameFound(storedProfiles, profile.name)
     THEN /\ storageResult' = "false"
          /\ UNCHANGED << storedProfiles, currentProfileName >>
     ELSE LET profileIndex == FindIndex(storedProfiles, profile.name)
          IN /\ storedProfiles' =
                  LimitedProfiles([storedProfiles EXCEPT
                                     ![profileIndex] = [@ EXCEPT !.highScore = profile.highScore,
                                                                !.lastPlayed = now]])
             /\ currentProfileName' = currentProfileName
             /\ storageResult' = "true"
  /\ UNCHANGED << ctxVars, obsVars, envVars, histVars >>

SaveProfiles == \E profiles \in ProfileLists : saveProfiles(profiles)

CreateProfile == \E name \in ProfileNames : createProfile(name)

DeleteProfile == \E name \in ProfileNames : deleteProfile(name)

UpdateProfile == \E profile \in ProfileUpdates : updateProfile(profile)

(***************************************************************************)
(* Player (Nemo / useNemoControls)                                         *)
(***************************************************************************)
\* Math.floor(score / GROWTH_SCORE_THRESHOLD)
GrowthLevel(s) == IF IsNaN(s) THEN NaN ELSE s \div GROWTH_SCORE_THRESHOLD

\* updateSizeFromScore, run by the effect of Nemo after every render; hundredths
nemoSize == NumAdd(NEMO_INITIAL_SIZE, NumMul(GrowthLevel(score), NEMO_GROWTH_FACTOR))

\* 0.5 * nemoSize * COLLISION_THRESHOLD, in units of 1/10000
nemoRadius == NumMul(5 * COLLISION_THRESHOLD, nemoSize)

(***************************************************************************)
(* Obstacles component                                                     *)
(***************************************************************************)
ObstacleIds(list) == { list[i].id : i \in 1..Len(list) }

\* currentTime - lastSpawnTimeRef.current < OBSTACLE_SPAWN_RATE / (1 + score / 5000)
SpawnIntervalNotElapsed ==
  /\ ~IsNaN(score)
  /\ (now - lastSpawnTimeRef) * (DifficultyDivisor + score)
       < OBSTACLE_SPAWN_RATE * DifficultyDivisor

\* variant: every obstacle gets the base speed
SpawnSpeedFlat == INITIAL_SPEED

\* INITIAL_SPEED * (1 + score / 5000)
SpawnSpeed ==
  IF IsNaN(score) THEN NaN
  ELSE (INITIAL_SPEED * (DifficultyDivisor + score)) \div DifficultyDivisor

\* variant: the id of the obstacle issued last is handed out again
IssuedIdAgain == IF obstacleCounterRef > 0 THEN obstacleCounterRef - 1 ELSE obstacleCounterRef

\* the value `obstacleCounterRef.current++` yields
IssuedId == obstacleCounterRef

newObstacle(type, xPos, yJitter) ==
  LET config == obstacleConfigs[type]
  IN [ id              |-> IssuedId,
       type            |-> type,
       x               |-> xPos,
       y               |-> IF type # "coral" /\ type # "seaweed"
                           THEN config.yPosition + yJitter
                           ELSE config.yPosition,
       z               |-> 0 - OBSTACLE_SPAWN_DISTANCE,
       speed           |-> SpawnSpeed,
       scoreAtSpawn    |-> score,      \* history: the score spawnObstacle read
       active          |-> TRUE,
       movementPattern |-> config.movement,
       amplitude       |-> config.amplitude ]

\* variant: a distance equal to the limit counts as well
DistanceAtMost(p, o, limit) ==
  LET dx == p[1] - o.x
      dy == p[2] - o.y
      dz == NumSub(p[3], o.z)
  IN /\ ~IsNaN(limit)
     /\ ~IsNaN(dz)
     /\ Abs(dx) <= limit /\ Abs(dy) <= limit /\ Abs(dz) <= limit
     /\ dx * dx + dy * dy + dz * dz <= limit * limit

\* nemoPosition.distanceTo(obstaclePosition) < limit, for limit > 0
DistanceLess(p, o, limit) ==
  LET dx == p[1] - o.x
      dy == p[2] - o.y
      dz == NumSub(p[3], o.z)
  IN /\ ~IsNaN(limit)
     /\ ~IsNaN(dz)
     /\ Abs(dx) < limit /\ Abs(dy) < limit /\ Abs(dz) < limit
     /\ dx * dx + dy * dy + dz * dz < limit * limit

\* variant: the obstacle is tested whether or not its mesh exists
ObstacleHitsUnrendered(o, p, rendered) ==
  /\ o.active
  /\ DistanceLess(p, o, NumAdd(nemoRadius, obstacleConfigs[o.type].collisionRadius))

\* the test of one obstacle inside the forEach of checkCollisions
ObstacleHits(o, p, rendered) ==
  /\ o.active
  /\ o.id \in rendered
  /\ DistanceLess(p, o, NumAdd(nemoRadius, obstacleConfigs[o.type].collisionRadius))

\* the number of onCollision calls checkCollisions makes on the list it sees
checkCollisions(list, p, rendered) ==
  IF hasCollidedRef \/ ~isPlaying THEN 0
  ELSE Cardinality({ i \in 1..Len(list) : ObstacleHits(list[i], p, rendered) })

\* sine * amplitude * delta, for delta = j * 50 ms
Overlay(amplitude, sine, j) == (amplitude * sine.n * j) \div (sine.d * 20)

\* variant: the oscillation is applied to both axes of every moving kind
MoveObstacleBothAxes(o, j, osc, rendered) ==
  IF ~o.active \/ o.id \notin rendered THEN o
  ELSE LET newZ == NumAdd(o.z, NumMul(o.speed, 3 * j))
           newX == IF o.movementPattern # "static"
                   THEN o.x + Overlay(o.amplitude, osc.sin, j)
                   ELSE o.x
           newY == IF o.movementPattern # "static"
                   THEN o.y + Overlay(o.amplitude, osc.sin, j)
                   ELSE o.y
           isOutOfBounds == NumGt(newZ, CullZ)
       IN [o EXCEPT !.x = newX, !.y = newY, !.z = newZ, !.active = ~isOutOfBounds]

\* the map callback of the frame's setObstacles updater
MoveObstacle(o, j, osc, rendered) ==
  IF ~o.active \/ o.id \notin rendered THEN o
  ELSE LET newZ == NumAdd(o.z, NumMul(o.speed, 3 * j))
           newX == IF o.movementPattern \in {"leftRight", "zigzag"}
                   THEN o.x + Overlay(o.amplitude, osc.sin, j)
                   ELSE o.x
           newY == IF o.movementPattern = "upDown"
                   THEN o.y + Overlay(o.amplitude, osc.sin, j)
                   ELSE IF o.movementPattern = "zigzag" /\ o.type = "shark"
                        THEN o.y + Overlay(o.amplitude \div 3, osc.sin2, j)
                        ELSE o.y
           isOutOfBounds == NumGt(newZ, CullZ)
       IN [o EXCEPT !.x = newX, !.y = newY, !.z = newZ, !.active = ~isOutOfBounds]

\* variant: the survivors come out in reverse order
FilterActiveReversed(list) ==
  LET kept == SelectSeq(list, LAMBDA o : o.active)
  IN [ i \in 1..Len(kept) |-> kept[Len(kept) + 1 - i] ]

\* `.filter(obstacle => obstacle.active)`
RECURSIVE FilterActive(_)
FilterActive(list) ==
  IF list = << >> THEN << >>
  ELSE IF Head(list).active THEN << Head(list) >> \o FilterActive(Tail(list))
       ELSE FilterActive(Tail(list))

\* what spawnObstacle appends: nothing, or one obstacle built from its random draws
SpawnChoices ==
  IF ~isPlaying \/ SpawnIntervalNotElapsed THEN { << >> }
  ELSE { << newObstacle(type, xPos, yJitter) >> :
           type \in SpawnTypes, xPos \in SpawnXs, yJitter \in SpawnYJitters }

\* the oscillation terms an obstacle's update reads
OscillationsOf(o, rendered) ==
  IF o.active /\ o.id \in rendered /\ o.movementPattern # "static"
  THEN Oscillations
  ELSE { [sin |-> Rat(0, 1), sin2 |-> Rat(0, 1)] }

\* a frame callback that runs in every status
FrameRunsAlways == TRUE

\* `if (!isPlaying || !obstaclesGroupRef.current) return;` with the group mounted
FrameRuns == isPlaying

\* one useFrame callback of Obstacles together with the render it causes
\* (delta = j * 50 ms)
FrameStep(j) ==
  /\ FrameRuns
  /\ \E p \in PlayerPositions, spawned \in SpawnChoices :
       LET rendered == ObstacleIds(obstacles)
           \* checkCollisions reads the list of the last render
           calls    == checkCollisions(obstacles, p, rendered)
           \* the updater maps the list with the queued append applied
           queued   == obstacles \o spawned
       IN /\ spawned # << >> => obstacleCounterRef < MaxObstacleId
          /\ \E oscs \in [1..Len(queued) -> Oscillations] :
               LET moved == [i \in 1..Len(queued) |->
                               MoveObstacle(queued[i], j, oscs[i], rendered)]
                   kept  == FilterActive(moved)
               IN /\ \A i \in 1..Len(queued) : oscs[i] \in OscillationsOf(queued[i], rendered)
                  /\ obstacles' = kept
                  /\ culledIds' = culledIds \cup (ObstacleIds(queued) \ ObstacleIds(kept))
          /\ lastSpawnTimeRef' = IF spawned # << >> THEN now ELSE lastSpawnTimeRef
          /\ obstacleCounterRef' = obstacleCounterRef + Len(spawned)
          /\ hasCollidedRef' = (hasCollidedRef \/ calls > 0)
          \* handleCollision, once per call
          /\ gameStatus' = IF calls > 0 THEN "gameOver" ELSE gameStatus
          /\ highScore' = IF calls > 0 THEN HighScoreAfterEnd ELSE highScore
          /\ collisionCalls' = Min(collisionCalls + calls, CallCap)
          /\ nemoPosition' = p
          /\ SetD(D)
          /\ UNCHANGED << score, now, storeVars >>

Frame == \E j \in DeltaSet : FrameStep(j)

\* handleCollision called on its own
HandleCollision ==
  /\ gameStatus' = "gameOver"
  /\ highScore' = HighScoreAfterEnd
  /\ SetD(D)
  /\ UNCHANGED << score, obsVars, envVars, collisionCalls, culledIds, storeVars >>

(***************************************************************************)
(* Specifications                                                          *)
(***************************************************************************)
Init ==
  /\ gameStatus = "menu"
  /\ score = 0
  /\ highScore = 0
  /\ gameParameters = calculateGameParameters(0)
  /\ showDifficultyNotification = FALSE
  /\ difficultyName = getDifficultyName(0)
  /\ previousScoreRef = 0
  /\ dismissTimers = << >>
  /\ obstacles = << >>
  /\ lastSpawnTimeRef = 0
  /\ obstacleCounterRef = 0
  /\ hasCollidedRef = FALSE
  /\ now = NowBase
  /\ nemoPosition = << 0, 0, 0 >>
  /\ collisionCalls = 0
  /\ lastUpdateScore = 0
  /\ culledIds = {}
  /\ InitStorage

\* the game as played: session control, the score interval and the frame loop
Next ==
  \/ StartGame
  \/ EndGame
  \/ TogglePause
  \/ GoToMainMenu
  \/ ScoreTick
  \/ TimePasses
  \/ Frame

Spec == Init /\ [][Next]_vars

\* the game-state context alone, every operation it exposes
NextGame ==
  \/ StartGame
  \/ EndGame
  \/ HandleCollision
  \/ TogglePause
  \/ GoToMainMenu
  \/ ScoreTick
  \/ SetScore
  \/ SetScoreAndEndGame
  \/ UpdateDifficultyCall
  \/ DismissDifficultyNotification
  \/ DismissTimerFires
  \/ TimePasses

SpecGame == Init /\ [][NextGame]_vars

\* the game-state context with the event loop's guarantees: the clock advances
\* and a timeout that is due runs its callback
SpecGameLive ==
  Init /\ [][NextGame]_vars /\ WF_vars(TimePasses) /\ WF_vars(DismissTimerFires)

\* a playthrough in which the score is also set by number (DevTools) before
\* the score interval has ticked
NextPlay ==
  \/ StartGame
  \/ ScoreTick
  \/ SetScore
  \/ TimePasses
  \/ Frame

SpecPlay == Init /\ [][NextPlay]_vars

\* the notification and its timeouts, with the clock in short steps
NextTimers ==
  \/ StartGame
  \/ SetScore
  \/ UpdateDifficultyCall
  \/ DismissDifficultyNotification
  \/ DismissTimerFires
  \/ TimePassesBriefly

SpecTimers == Init /\ [][NextTimers]_vars

\* the profile store on its own
NextStorage ==
  \/ SaveProfiles
  \/ CreateProfile
  \/ DeleteProfile
  \/ UpdateProfile

SpecStorage == Init /\ [][NextStorage]_vars

\* the difficulty curve: updateDifficulty applied to every score of the range
NextDifficulty == UpdateDifficultyNear

SpecDifficulty == Init /\ [][NextDifficulty]_vars

\* an obstacle of the given kind in mid-flight, spawned at score 0
placedObstacle(id, type, x, y, z) ==
  [ id              |-> id,
    type            |-> type,
    x               |-> x,
    y               |-> y,
    z               |-> z,
    speed           |-> INITIAL_SPEED,
    scoreAtSpawn    |-> 0,
    active          |-> TRUE,
    movementPattern |-> obstacleConfigs[type].movement,
    amplitude       |-> obstacleConfigs[type].amplitude ]

\* mid-flight obstacles near the player positions: for every kind one inside
\* its collision distance of some player position, and for coral, rock and
\* shark one at exactly that distance
PlacedObstacles(id) ==
  { placedObstacle(id, "coral",     0,    0 - 35000, 0 - 10000),
    placedObstacle(id, "seaweed",   0,    0 - 30000, 0 - 10000),
    placedObstacle(id, "rock",      0,    0 - 26000, 0 - 8000),
    placedObstacle(id, "shark",     0,    0,         0 - 10000),
    placedObstacle(id, "shark",     9600, 0,         0 - 12800),
    placedObstacle(id, "jellyfish", 0,    10000,     0 - 3000),
    placedObstacle(id, "jellyfish", 0,    10000,     0 - 50000) }

\* a playthrough at score 0 with one or two obstacles on their way
InitCollision ==
  /\ gameStatus = "playing"
  /\ score = 0
  /\ highScore = 0
  /\ gameParameters = calculateGameParameters(0)
  /\ showDifficultyNotification = FALSE
  /\ difficultyName = getDifficultyName(0)
  /\ previousScoreRef = 0
  /\ dismissTimers = << >>
  /\ obstacles \in { << a >> : a \in PlacedObstacles(0) }
                   \cup { << a, b >> : a \in PlacedObstacles(0), b \in PlacedObstacles(1) }
  /\ lastSpawnTimeRef = NowBase
  /\ obstacleCounterRef = Len(obstacles)
  /\ hasCollidedRef = FALSE
  /\ now = NowBase
  /\ nemoPosition = << 0, 0, 0 >>
  /\ collisionCalls = 0
  /\ lastUpdateScore = 0
  /\ culledIds = {}
  /\ InitStorage

NextCollision == Frame

SpecCollision == InitCollision /\ [][NextCollision]_vars

\* the same scene with the clock running, so that frames also reach the spawn
\* interval and add obstacles next to the placed ones
NextSpawning ==
  \/ Frame
  \/ TimePasses

SpecSpawning == InitCollision /\ [][NextSpawning]_vars

\* the spawning scene with the score changing as well: the 100 ms score
\* interval and the developer panel's score buttons
NextSpawnScores ==
  \/ ScoreTick
  \/ SetScore
  \/ TimePasses
  \/ Frame

SpecSpawnScores == InitCollision /\ [][NextSpawnScores]_vars

\* obstacles of every kind at the spawn distance, as spawnObstacle places them
FreshObstacles(id) ==
  { placedObstacle(id, type, 0, obstacleConfigs[type].yPosition, 0 - OBSTACLE_SPAWN_DISTANCE) :
      type \in ObstacleTypes }

\* a playthrough at score 0 with one or two obstacles just spawned
InitMotion ==
  /\ gameStatus = "playing"
  /\ score = 0
  /\ highScore = 0
  /\ gameParameters = calculateGameParameters(0)
  /\ showDifficultyNotification = FALSE
  /\ difficultyName = getDifficultyName(0)
  /\ previousScoreRef = 0
  /\ dismissTimers = << >>
  /\ obstacles \in { << a >> : a \in FreshObstacles(0) }
                   \cup { << a, b >> : a \in FreshObstacles(0), b \in FreshObstacles(1) }
  /\ lastSpawnTimeRef = NowBase
  /\ obstacleCounterRef = Len(obstacles)
  /\ hasCollidedRef = FALSE
  /\ now = NowBase
  /\ nemoPosition = << 0, 0, 0 >>
  /\ collisionCalls = 0
  /\ lastUpdateScore = 0
  /\ culledIds = {}
  /\ InitStorage

NextMotion == Frame

SpecMotion == InitMotion /\ [][NextMotion]_vars

(***************************************************************************)
(* The tier table as the specification states it: thresholds, and speed    *)
(* and spawn rate in tenths.  Tier i is entry i + 1.                       *)
(***************************************************************************)
TierThresholds == << 0, 100, 250, 500, 1000, 2000 >>

TierSpeedTenths == << 50, 60, 70, 80, 90, 100 >>

TierSpawnRateTenths == << 20, 18, 16, 14, 12, 10 >>

LastTier == Len(TierThresholds) - 1

\* the rational q equals tenths / 10
IsTenths(q, tenths) == q.d # 0 /\ 10 * q.n = tenths * q.d

\* q = (from + progress * (to - from)) / 10 with progress = num / den
IsInterpolation(q, from, to, num, den) ==
  q.d # 0 /\ (10 * q.n - from * q.d) * den = num * (to - from) * q.d

\* the score of the latest updateDifficulty call and the parameters it computed
CurveScore == previousScoreRef

CurveTier == gameParameters.difficultyLevel

(***************************************************************************)
(* Properties of the difficulty curve (SpecDifficulty)                     *)
(***************************************************************************)
\* C4: getDifficultyLevelIndex(s) is the greatest tier index whose threshold is
\* at most s; a score equal to a threshold belongs to that threshold's tier.
C4_GreatestTierAtMostScore ==
  LET i == getDifficultyLevelIndex(CurveScore)
  IN /\ i \in 0..LastTier
     /\ TierThresholds[i + 1] <= CurveScore
     /\ \A k \in 0..LastTier : TierThresholds[k + 1] <= CurveScore => k <= i
     /\ CurveTier = i

C4_Witness ==
  /\ CurveScore = 250
  /\ getDifficultyLevelIndex(CurveScore) = 2
  /\ CurveTier = 2

\* C5: nextMilestone is null exactly in the last tier; otherwise it is the
\* threshold of the next tier and strictly greater than the score.
C5_NextMilestone ==
  LET params == calculateGameParameters(CurveScore)
  IN /\ params = gameParameters
     /\ (params.nextMilestone = << >>) <=> (params.difficultyLevel = LastTier)
     /\ params.difficultyLevel # LastTier =>
          /\ params.nextMilestone = << TierThresholds[params.difficultyLevel + 2] >>
          /\ params.nextMilestone[1] > CurveScore

C5_Witness ==
  /\ CurveScore = 2000
  /\ gameParameters.difficultyLevel = LastTier
  /\ gameParameters.nextMilestone = << >>

\* C6: at a tier threshold, and everywhere from the highest threshold on, the
\* parameters are the tier's configured values, with scoreMultiplier 1.0.
C6_RawValuesAtThresholds ==
  LET params == calculateGameParameters(CurveScore)
  IN /\ params = gameParameters
     /\ \A i \in 0..LastTier :
          (CurveScore = TierThresholds[i + 1] \/ (i = LastTier /\ CurveScore >= 2000)) =>
            /\ IsTenths(params.speed, TierSpeedTenths[i + 1])
            /\ IsTenths(params.spawnRate, TierSpawnRateTenths[i + 1])
            /\ IsTenths(params.scoreMultiplier, 10)
            /\ params.difficultyLevel = i

C6_Witness ==
  /\ CurveScore = MaxDifficultyScore
  /\ CurveScore > 2000
  /\ gameParameters.speed = Rat(10, 1)
  /\ gameParameters.spawnRate = Rat(1, 1)

\* C7: strictly between two thresholds the parameters are the linear
\* interpolation of the two tiers' values (score 50: speed 5.5, spawnRate 1.9,
\* multiplier 1.0, tier 0, milestone 100); speed stays in [5, 10] and spawnRate
\* in [1, 2].
C7_LinearInterpolation ==
  LET params == calculateGameParameters(CurveScore)
  IN /\ params = gameParameters
     /\ \A i \in 0..(LastTier - 1) :
          (TierThresholds[i + 1] < CurveScore /\ CurveScore < TierThresholds[i + 2]) =>
            LET num == CurveScore - TierThresholds[i + 1]
                den == TierThresholds[i + 2] - TierThresholds[i + 1]
            IN /\ IsInterpolation(params.speed, TierSpeedTenths[i + 1],
                                  TierSpeedTenths[i + 2], num, den)
               /\ IsInterpolation(params.spawnRate, TierSpawnRateTenths[i + 1],
                                  TierSpawnRateTenths[i + 2], num, den)
               /\ IsInterpolation(params.scoreMultiplier, 10, 10, num, den)
               /\ params.difficultyLevel = i
               /\ params.nextMilestone = << TierThresholds[i + 2] >>
     /\ CurveScore = 50 =>
          /\ params.speed = Rat(11, 2)
          /\ params.spawnRate = Rat(19, 10)
          /\ params.scoreMultiplier = Rat(1, 1)
          /\ params.difficultyLevel = 0
          /\ params.nextMilestone = << 100 >>
     /\ RatLe(Rat(5, 1), params.speed) /\ RatLe(params.speed, Rat(10, 1))
     /\ RatLe(Rat(1, 1), params.spawnRate) /\ RatLe(params.spawnRate, Rat(2, 1))

C7_Witness ==
  /\ CurveScore = 50
  /\ gameParameters.speed = Rat(11, 2)
  /\ gameParameters.spawnRate = Rat(19, 10)

\* the earlier scores of the current tier that the latest score is compared with
EarlierScoresOfTier ==
  { s1 \in DifficultyLandmarks \cup { CurveScore - k : k \in DifficultySteps } :
      /\ 0 <= s1 /\ s1 <= CurveScore
      /\ getDifficultyLevelIndex(s1) = getDifficultyLevelIndex(CurveScore) }

\* C8: within one tier [t_i, t_i+1), a larger score never has a smaller speed
\* nor a larger spawnRate, and scoreMultiplier stays 1.0.
C8_MonotoneWithinTier ==
  CurveTier < LastTier =>
    \A s1 \in EarlierScoresOfTier :
      LET p1 == calculateGameParameters(s1)
          p2 == gameParameters
      IN /\ RatLe(p1.speed, p2.speed)
         /\ RatLe(p2.spawnRate, p1.spawnRate)
         /\ p1.scoreMultiplier = Rat(1, 1)
         /\ p2.scoreMultiplier = Rat(1, 1)

C8_Witness ==
  /\ CurveScore = 260
  /\ EarlierScoresOfTier = {250, 251, 259}
  /\ RatLt(calculateGameParameters(250).speed, gameParameters.speed)
  /\ RatLt(gameParameters.spawnRate, calculateGameParameters(259).spawnRate)

(***************************************************************************)
(* Properties of the collision guard (Spec)                                *)
(***************************************************************************)
\* C1: between one startGame and the next, onCollision is invoked at most once,
\* also in a frame in which two active obstacles overlap the player.
C1_AtMostOneCollisionCall == collisionCalls <= 1

\* C2: the collision guard, once set, is cleared only by the start of a new
\* playthrough (startGame, which also restarts the count of onCollision calls),
\* never by pause and resume.
C2_GuardResetOnlyByStart ==
  [][(hasCollidedRef /\ ~hasCollidedRef') => collisionCalls' = 0]_vars

(***************************************************************************)
(* Properties of the difficulty notification (SpecGame)                    *)
(***************************************************************************)
\* an updateDifficulty call of this step has raised the notification: it has
\* scheduled one more auto-dismiss timeout
NotificationRaised == Len(dismissTimers') > Len(dismissTimers)

\* C3: an update raises the notification exactly when the tier of its score is
\* above the tier of the previous update's score; it raises it once, shows it
\* and names the tier of the new score, however many thresholds were crossed.
C3_RaisedIffTierIncreases ==
  [][ /\ NotificationRaised <=>
           getDifficultyLevelIndex(lastUpdateScore')
             > getDifficultyLevelIndex(lastUpdateScore)
      /\ NotificationRaised =>
           /\ Len(dismissTimers') = Len(dismissTimers) + 1
           /\ showDifficultyNotification'
           /\ difficultyName' =
                difficultyNames[getDifficultyLevelIndex(lastUpdateScore') + 1]
    ]_vars

C3_Witness ==
  /\ lastUpdateScore = 300
  /\ showDifficultyNotification
  /\ difficultyName = "Challenging"
  /\ Len(dismissTimers) = 1

(***************************************************************************)
(* Properties of collision detection (SpecCollision)                       *)
(***************************************************************************)
\* the collision radii the specification lists, in units of 1/10000
KindRadius ==
  [ coral |-> 10000, seaweed |-> 8000, rock |-> 11000, shark |-> 12000,
    jellyfish |-> 7000 ]

\* 0.5 * playerSize * 0.8, in units of 1/10000, for playerSize in hundredths
PlayerReach == 40 * nemoSize

SquaredDistance(p, o) ==
  (p[1] - o.x) * (p[1] - o.x) + (p[2] - o.y) * (p[2] - o.y) + (p[3] - o.z) * (p[3] - o.z)

\* no coordinate differs by more than the limit (the squares below stay small)
WithinBox(p, o, limit) ==
  /\ ~IsNaN(o.z)
  /\ Abs(p[1] - o.x) <= limit /\ Abs(p[2] - o.y) <= limit /\ Abs(p[3] - o.z) <= limit

\* an active obstacle strictly closer to position p than the sum of the radii
Overlaps(o, p) ==
  /\ o.active
  /\ ~IsNaN(nemoSize)
  /\ WithinBox(p, o, PlayerReach + KindRadius[o.type])
  /\ SquaredDistance(p, o)
       < (PlayerReach + KindRadius[o.type]) * (PlayerReach + KindRadius[o.type])

AtExactDistance(o, p) ==
  /\ ~IsNaN(nemoSize)
  /\ WithinBox(p, o, PlayerReach + KindRadius[o.type])
  /\ SquaredDistance(p, o)
       = (PlayerReach + KindRadius[o.type]) * (PlayerReach + KindRadius[o.type])

\* C9: while playing with the guard not set, the collision check of a frame
\* reports a collision iff some active obstacle is strictly closer to the
\* player than 0.5 * playerSize * 0.8 + collisionRadius(kind).
C9_CollisionIffStrictlyCloser ==
  [][ (isPlaying /\ ~hasCollidedRef) =>
        (hasCollidedRef' <=>
           \E i \in 1..Len(obstacles) : Overlaps(obstacles[i], nemoPosition'))
    ]_vars

C9_Witness ==
  /\ hasCollidedRef
  /\ gameStatus = "gameOver"
  /\ \E i \in 1..Len(obstacles) :
       /\ Overlaps(obstacles[i], nemoPosition)
       /\ obstacles[i].type = "shark"
  /\ \E i \in 1..Len(obstacles) :
       /\ AtExactDistance(obstacles[i], nemoPosition)
       /\ obstacles[i].type = "shark"

\* C17: within a frame the steps run in the order spawn, motion update,
\* collision detection, so the collision check of a frame reports a collision
\* iff some obstacle overlaps the player at the position that frame's motion
\* update gave it.
C17_CollisionTestsMovedPositions ==
  [][ (isPlaying /\ ~hasCollidedRef) =>
        (hasCollidedRef' <=>
           \E i \in 1..Len(obstacles') : Overlaps(obstacles'[i], nemoPosition'))
    ]_vars

(***************************************************************************)
(* Properties of culling (Spec)                                            *)
(***************************************************************************)
\* C10: the obstacle list holds only active obstacles with z <= 20, and an id
\* that has been removed from the list is never in it again.
C10_CulledOneWay ==
  \A i \in 1..Len(obstacles) :
    /\ obstacles[i].active
    /\ ~IsNaN(obstacles[i].z) /\ obstacles[i].z <= CullZ
    /\ obstacles[i].id \notin culledIds

\* every id handed out so far: the obstacles of the list and the removed ones
IssuedIds == ObstacleIds(obstacles) \cup culledIds

\* C19: obstacle ids are unique and strictly increasing in spawn order over the
\* whole lifetime of the spawner: no two obstacles ever created, in the same
\* or in different playthroughs, removed or not, share an id, and the id of a
\* newly spawned obstacle is greater than every id issued before.
C19_IdsUniqueAndIncreasing ==
  [][ /\ \A i \in 1..Len(obstacles') : \A k \in 1..Len(obstacles') :
            i # k => obstacles'[i].id # obstacles'[k].id
      /\ ObstacleIds(obstacles') \cap culledIds' = {}
      /\ \A i \in 1..Len(obstacles') :
            (obstacles'[i].id \notin ObstacleIds(obstacles)) =>
               \A old \in IssuedIds : obstacles'[i].id > old
    ]_vars

\* a playthrough after one that ended in a collision, with the first obstacle
\* removed and a second one spawned
C19_Witness ==
  /\ gameStatus = "playing"
  /\ collisionCalls >= 1 /\ ~hasCollidedRef
  /\ 0 \in culledIds
  /\ 1 \in ObstacleIds(obstacles)

\* C20: the active-obstacle list preserves insertion order: a new obstacle is
\* appended at the end and motion updates and culling never reorder the
\* survivors, so in every reachable state the list is sorted by strictly
\* ascending id.
C20_ListAscendingById ==
  \A i \in 1..Len(obstacles) : \A k \in 1..Len(obstacles) :
    i < k => obstacles[i].id < obstacles[k].id

\* two obstacles in the list, the older one moved by a frame after both were in
C20_Witness ==
  /\ Len(obstacles) = 2
  /\ ~IsNaN(obstacles[1].z) /\ obstacles[1].z > 0 - OBSTACLE_SPAWN_DISTANCE
  /\ (IsNaN(obstacles[2].z) \/ obstacles[2].z > 0 - OBSTACLE_SPAWN_DISTANCE)

\* C18: while the status is 'paused' or 'gameOver' nothing changes in the
\* obstacle subsystem: no obstacle is spawned, moved or culled, lastSpawnTime
\* and the id counter keep their values; so from the pause up to and including
\* the resume every obstacle keeps the position it had when the pause began.
C18_FrozenWhileSuspended ==
  [][ (gameStatus = "paused" \/ gameStatus = "gameOver") =>
        /\ obstacles' = obstacles
        /\ lastSpawnTimeRef' = lastSpawnTimeRef
        /\ obstacleCounterRef' = obstacleCounterRef
    ]_vars

\* paused with an obstacle on its way and the spawn interval long elapsed
C18_Witness ==
  /\ gameStatus = "paused"
  /\ Len(obstacles) >= 1
  /\ ~IsNaN(obstacles[1].z) /\ obstacles[1].z > 0 - OBSTACLE_SPAWN_DISTANCE
  /\ now >= lastSpawnTimeRef + 2 * OBSTACLE_SPAWN_RATE

(***************************************************************************)
(* Properties of spawning (Spec)                                           *)
(***************************************************************************)
\* a step in which spawnObstacle has created an obstacle: an id was issued
SpawnHappens == obstacleCounterRef' # obstacleCounterRef

\* now - lastSpawnTime >= 2000 / (1 + score / 5000), for a finite score
SpawnIntervalElapsed ==
  /\ ~IsNaN(score)
  /\ (now - lastSpawnTimeRef) * (5000 + score) >= 2000 * 5000

\* C11: an obstacle is created in a frame iff the game is playing and the spawn
\* interval 2000 / (1 + score / 5000) has elapsed since lastSpawnTime;
\* lastSpawnTime becomes now exactly when a spawn happens.
C11_SpawnIffIntervalElapsed ==
  [][ /\ SpawnHappens => (isPlaying /\ SpawnIntervalElapsed /\ lastSpawnTimeRef' = now)
      /\ ~SpawnHappens => lastSpawnTimeRef' = lastSpawnTimeRef
      /\ (isPlaying /\ nemoPosition' # nemoPosition /\ SpawnIntervalElapsed) => SpawnHappens
    ]_vars

(***************************************************************************)
(* Properties of the session status and the score (SpecGame, Spec)         *)
(***************************************************************************)
\* C12: the status becomes 'playing' only by resuming from 'paused' or by a
\* start from 'menu' or 'gameOver', which leaves score = 0; it becomes
\* 'gameOver' only from 'playing'.
C12_ActiveOnlyByStartOrResume ==
  [][ /\ (gameStatus \in {"menu", "gameOver"} /\ gameStatus' = "playing") => score' = 0
      /\ (gameStatus # "gameOver" /\ gameStatus' = "gameOver") => gameStatus = "playing"
    ]_vars

\* C13: while the status is not 'playing' the score changes only by startGame,
\* which sets it to 0 and makes the status 'playing'.
C13_ScoreFrozenOutsideActive ==
  [][ (gameStatus # "playing" /\ score' # score) =>
        (score' = 0 /\ gameStatus' = "playing")
    ]_vars

C13_Witness ==
  /\ gameStatus = "paused"
  /\ score = 1000
  /\ highScore = 0

\* C14: the score is a finite non-negative integer, and while the game is played
\* it changes only by a tick that adds round(SCORE_INCREMENT * scoreMultiplier) = 1
\* or by startGame setting it to 0.
C14_TickAddsOne ==
  [][ /\ ~IsNaN(score') /\ score' >= 0
      /\ score' # score => (score' = 0 \/ score' = score + 1)
    ]_vars

\* C15: when a playthrough ends with final score s, the high score becomes s if s
\* exceeds it and is unchanged otherwise; no step lowers it.
C15_HighScoreIsMaxAtEnd ==
  [][ /\ (gameStatus # "gameOver" /\ gameStatus' = "gameOver") =>
           highScore' = IF NumGt(score', highScore) THEN score' ELSE highScore
      /\ ~NumLt(highScore', highScore)
    ]_vars

(***************************************************************************)
(* Properties of the notification's lifetime (SpecGameLive)                *)
(***************************************************************************)
\* C16: a raised difficulty notification is eventually cleared, by an explicit
\* dismissal or by its auto-dismiss timeout.
C16_RaisedEventuallyCleared ==
  showDifficultyNotification ~> ~showDifficultyNotification

C16_Witness ==
  /\ ~showDifficultyNotification
  /\ difficultyName = "Expert"
  /\ dismissTimers = << >>
  /\ now >= NowBase + DismissDelay

(***************************************************************************)
(* Properties of the exposed difficulty state (SpecGame, Spec)             *)
(***************************************************************************)
\* C21: gameParameters is a pure projection of the score: whenever the status
\* is 'playing' (effects run) gameParameters = calculateGameParameters(score);
\* and updateDifficulty(s) always leaves difficultyLevel =
\* getDifficultyLevelIndex(s).
C21_ParametersProjectScore ==
  /\ isPlaying => gameParameters = calculateGameParameters(score)
  /\ gameParameters.difficultyLevel = getDifficultyLevelIndex(lastUpdateScore)

\* C26: startGame from 'menu' or 'gameOver', whatever the previous score was,
\* leaves status 'playing', score 0, the previous-score snapshot 0 and
\* gameParameters = calculateGameParameters(0) (tier 0, speed 5, spawn rate
\* 2.0), and raises no difficulty notification.
C26_StartGameResets ==
  [][ ((gameStatus = "menu" \/ gameStatus = "gameOver") /\ StartGame) =>
        /\ gameStatus' = "playing"
        /\ score' = 0
        /\ previousScoreRef' = 0
        /\ gameParameters' = calculateGameParameters(0)
        /\ gameParameters'.difficultyLevel = 0
        /\ gameParameters'.speed = Rat(5, 1)
        /\ gameParameters'.spawnRate = Rat(2, 1)
        /\ dismissTimers' = dismissTimers
        /\ showDifficultyNotification' = showDifficultyNotification
    ]_vars

\* a playthrough started after one that ended with score 1000
C26_Witness ==
  /\ gameStatus = "playing"
  /\ score = 0
  /\ highScore = 1000
  /\ previousScoreRef = 0
  /\ gameParameters.difficultyLevel = 0

\* C27: the tier name exposed to the UI always matches the exposed parameters:
\* in every reachable state difficultyName =
\* getDifficultyName(gameParameters.difficultyLevel), also right after a
\* startGame that follows a playthrough which had reached a higher tier.
C27_NameMatchesParameters ==
  difficultyName = getDifficultyName(gameParameters.difficultyLevel)

\* C29: auto-dismiss timers do not interfere across notifications: a
\* notification raised at time t stays raised until t + 3000 ms unless it is
\* explicitly dismissed, also when the timer of an earlier notification is
\* still pending and fires in between.  (The timeout of the latest raise is
\* the last pending one; the flag may go down without a dismissal only when
\* that timeout is due.)
C29_TimersDoNotInterfere ==
  [][ (showDifficultyNotification /\ ~showDifficultyNotification'
         /\ ~DismissDifficultyNotification)
        => \A i \in 1..Len(dismissTimers) : dismissTimers[i] <= now
    ]_vars

(***************************************************************************)
(* Properties of obstacle motion (SpecPlay, SpecCollision)                 *)
(***************************************************************************)
\* BASE_SPEED * (1 + s / 5000) for the score s the obstacle was spawned at
SpeedOfSpawnScore(o) ==
  IF IsNaN(o.scoreAtSpawn) THEN IsNaN(o.speed)
  ELSE /\ ~IsNaN(o.speed)
       /\ o.speed * 5000 = 5000 * (5000 + o.scoreAtSpawn)

\* C22: an obstacle's speed is BASE_SPEED * (1 + scoreAtSpawn / 5000) from its
\* spawn on, whatever motion updates and score changes follow; hence of two
\* obstacles the one spawned later at a score not below the earlier one's
\* never has the smaller speed.
C22_SpeedFixedAtSpawn ==
  /\ \A i \in 1..Len(obstacles) : SpeedOfSpawnScore(obstacles[i])
  /\ \A i \in 1..Len(obstacles) : \A k \in 1..Len(obstacles) :
        (i < k /\ NumGe(obstacles[k].scoreAtSpawn, obstacles[i].scoreAtSpawn))
          => ~NumLt(obstacles[k].speed, obstacles[i].speed)

\* an obstacle spawned at score 0 and moved since, and one spawned at score 1000
C22_Witness ==
  /\ Len(obstacles) = 2
  /\ obstacles[1].scoreAtSpawn = 0 /\ obstacles[1].z > 0 - OBSTACLE_SPAWN_DISTANCE
  /\ obstacles[2].scoreAtSpawn = 1000 /\ obstacles[2].speed = 6000
  /\ IsNaN(score)

\* a frame with a positive deltaTime
PositiveFrame == \E j \in DeltaSet \ {0} : FrameStep(j)

\* C23: every spawned obstacle is eventually removed while the session stays
\* active and frames with positive deltaTime keep running: its speed is
\* positive and each such frame either removes it or strictly increases its
\* z, from -100 until z exceeds 20, so the active set stays bounded.
C23_FramesAdvanceEveryObstacle ==
  [][ PositiveFrame =>
        \A i \in 1..Len(obstacles) :
          /\ NumGt(obstacles[i].speed, 0)
          /\ \/ obstacles[i].id \notin ObstacleIds(obstacles')
             \/ \E k \in 1..Len(obstacles') :
                  /\ obstacles'[k].id = obstacles[i].id
                  /\ NumGt(obstacles'[k].z, obstacles[i].z)
    ]_vars

\* sin((elapsedTime + phaseOffset) * frequency) = 0, and with it the sine of
\* twice that angle
ZeroOscillation == [sin |-> Rat(0, 1), sin2 |-> Rat(0, 1)]

\* C24: the movement overlays touch only the axes of the obstacle's pattern:
\* 'static' kinds keep x and y, 'upDown' keeps x, 'leftRight' keeps y, and
\* only a shark gets the extra y oscillation of 'zigzag'; with an oscillation
\* term of 0 the update leaves x and y and only advances z.
C24_OverlayOnPatternAxes ==
  [][ /\ \A i \in 1..Len(obstacles) : \A k \in 1..Len(obstacles') :
            obstacles'[k].id = obstacles[i].id =>
              /\ obstacles[i].movementPattern = "static" =>
                    (obstacles'[k].x = obstacles[i].x /\ obstacles'[k].y = obstacles[i].y)
              /\ obstacles[i].movementPattern = "upDown" => obstacles'[k].x = obstacles[i].x
              /\ obstacles[i].movementPattern = "leftRight" => obstacles'[k].y = obstacles[i].y
              /\ (obstacles[i].movementPattern = "zigzag" /\ obstacles[i].type # "shark")
                    => obstacles'[k].y = obstacles[i].y
      /\ \A i \in 1..Len(obstacles) : \A j \in DeltaSet :
            LET m == MoveObstacle(obstacles[i], j, ZeroOscillation, ObstacleIds(obstacles))
            IN /\ m.x = obstacles[i].x /\ m.y = obstacles[i].y
               /\ m.z = obstacles[i].z + obstacles[i].speed * 3 * j
    ]_vars

\* a seaweed displaced sideways and a jellyfish displaced vertically by a frame
C24_Witness ==
  /\ Len(obstacles) = 2
  /\ obstacles[1].type = "seaweed" /\ obstacles[1].x # 0
  /\ obstacles[1].y = obstacleConfigs["seaweed"].yPosition
  /\ obstacles[2].type = "jellyfish" /\ obstacles[2].x = 0
  /\ obstacles[2].y # obstacleConfigs["jellyfish"].yPosition

\* the meshes that exist when the mesh of obstacle o does not
MeshesWithout(o) == ObstacleIds(obstacles) \ {o.id}

\* C25: an obstacle whose mesh obstacle-<id> does not exist yet is skipped for
\* that frame: the collision check ignores it, the motion update leaves its
\* position and active flag as they are, and all other obstacles are processed
\* as usual.  An obstacle is in that situation in the frame that spawns it.
C25_UnrenderedObstacleSkipped ==
  [][ /\ \A k \in 1..Len(obstacles') :
            obstacles'[k].id \notin ObstacleIds(obstacles) =>
              /\ obstacles'[k].z = 0 - OBSTACLE_SPAWN_DISTANCE
              /\ obstacles'[k].active
              /\ obstacles'[k].x \in SpawnXs
              /\ \E yJitter \in SpawnYJitters \cup {0} :
                    obstacles'[k].y = obstacleConfigs[obstacles'[k].type].yPosition + yJitter
      /\ \A i \in 1..Len(obstacles) : \A p \in PlayerPositions :
            LET o == obstacles[i]
            IN /\ ~ObstacleHits(o, p, MeshesWithout(o))
               /\ (isPlaying /\ ~hasCollidedRef) =>
                    checkCollisions(obstacles, p, MeshesWithout(o))
                      = Cardinality({ n \in 1..Len(obstacles) :
                                       /\ n # i
                                       /\ ObstacleHits(obstacles[n], p, ObstacleIds(obstacles)) })
               /\ \A j \in DeltaSet : \A osc \in Oscillations :
                    /\ MoveObstacle(o, j, osc, MeshesWithout(o)) = o
                    /\ \A n \in 1..Len(obstacles) :
                         n # i => MoveObstacle(obstacles[n], j, osc, MeshesWithout(o))
                                    = MoveObstacle(obstacles[n], j, osc, ObstacleIds(obstacles))
    ]_vars

\* a frame has just spawned the second obstacle, whose mesh did not exist in
\* that frame, while the first one is within collision distance of the player
C25_Witness ==
  /\ isPlaying /\ ~hasCollidedRef
  /\ Len(obstacles) = 2
  /\ \E p \in PlayerPositions : Overlaps(obstacles[1], p)
  /\ obstacles[2].z = 0 - OBSTACLE_SPAWN_DISTANCE
  /\ lastSpawnTimeRef = now

\* C28: a new playthrough starts with an empty active-obstacle set: after
\* gameOver followed by startGame no obstacle of the previous playthrough, in
\* particular the one that caused the collision, is still in the list.
C28_RestartClearsObstacles ==
  [][ (gameStatus = "gameOver" /\ StartGame) => obstacles' = << >> ]_vars

=============================================================================
